---- MODULE Spec2Model ----
(***************************************************************************)
(* The weather microservice of src/app.py: four Flask routes (/, /health,  *)
(* /metrics, /weather/<city>) served by a pool of request threads that     *)
(* share two Prometheus metrics, REQUEST_COUNT and REQUEST_LATENCY.        *)
(*                                                                         *)
(* Strings that the code inspects character by character (the <city> path  *)
(* segment, lowercased by str.lower) are sequences of one-character        *)
(* strings.  Temperatures and humidities are integers: hundredths of a     *)
(* unit before round(x, 1), tenths after it.  prometheus_client serialises *)
(* inc() and observe() under a lock, so each is one atomic step.  A library*)
(* call may raise: the Raise actions inject a failure at each place of the *)
(* handler where the code calls out, and the exception then follows the    *)
(* try/except structure of get_weather.                                    *)
(***************************************************************************)
EXTENDS Integers, Sequences, FiniteSets, TLC

VARIABLES
    REQUEST_COUNT,    \* [status label -> value] of weather_request_count{endpoint="/weather"}
    REQUEST_LATENCY,  \* observation count of weather_request_latency_seconds{endpoint="/weather"}
    pc,               \* per thread: position in the handler it runs
    endpoint,         \* per thread: the route being served
    city,             \* per thread: the <city> path segment as received
    response,         \* per thread: the value bound to `response` / returned
    incs,             \* per thread (history): counter increments made by the current request
    obs,              \* per thread (history): latency observations made by the current request
    failed,           \* per thread (history): the places where the current request met a failure
    started,          \* history: requests accepted so far
    served,           \* history: /weather requests completed so far
    counted,          \* history: per status label, completed requests that incremented it
    failures,         \* history: whether a failure has been raised so far
    env               \* the deployment, fixed at start-up: the server's request threads (pool),
                      \* the <city> segments clients send (paths), the granularity of the
                      \* random source (res) and the number of requests sent (budget)

vars == <<REQUEST_COUNT, REQUEST_LATENCY, pc, endpoint, city, response, incs, obs,
          failed, started, served, counted, failures, env>>

----------------------------------------------------------------------------
(* Bounds of the model *)

NThreads == 2
MaxRequests == 3
MaxSeqRequests == 2
Resolution == 1
MaxUpper == 1

Threads == 1..NThreads

----------------------------------------------------------------------------
(* str.lower() on ASCII *)

UpperAlpha ==
    <<"A","B","C","D","E","F","G","H","I","J","K","L","M",
      "N","O","P","Q","R","S","T","U","V","W","X","Y","Z">>

LowerAlpha ==
    <<"a","b","c","d","e","f","g","h","i","j","k","l","m",
      "n","o","p","q","r","s","t","u","v","w","x","y","z">>

LowerChar(c) ==
    IF \E i \in 1..Len(UpperAlpha) : UpperAlpha[i] = c
    THEN LowerAlpha[CHOOSE i \in 1..Len(UpperAlpha) : UpperAlpha[i] = c]
    ELSE c

UpperChar(c) ==
    IF \E i \in 1..Len(LowerAlpha) : LowerAlpha[i] = c
    THEN UpperAlpha[CHOOSE i \in 1..Len(LowerAlpha) : LowerAlpha[i] = c]
    ELSE c

\* faulty variant: the lookup forgets to lowercase
LowerIdentity(s) == s

Lower(s) == [i \in 1..Len(s) |-> LowerChar(s[i])]

----------------------------------------------------------------------------
(* The static city table *)

KeyNewYork == <<"n","e","w","_","y","o","r","k">>
KeyLondon == <<"l","o","n","d","o","n">>

WEATHER_DATA ==
    (KeyNewYork :> [city        |-> "New York",
                    temperature |-> [lo |-> 0, hi |-> 35],
                    conditions  |-> <<"Sunny", "Cloudy", "Rainy", "Snowy">>,
                    humidity    |-> [lo |-> 30, hi |-> 90]])
    @@
    (KeyLondon  :> [city        |-> "London",
                    temperature |-> [lo |-> -5, hi |-> 25],
                    conditions  |-> <<"Cloudy", "Rainy", "Foggy", "Clear">>,
                    humidity    |-> [lo |-> 40, hi |-> 95]])

Statuses == {"200", "404", "500"}

----------------------------------------------------------------------------
(* The <city> path segments the clients send *)

Spell(w, U) == [i \in 1..Len(w) |-> IF i \in U THEN UpperChar(w[i]) ELSE w[i]]

\* at most MaxUpper letters in upper case, or all of them
CasePatterns(w) ==
    {U \in SUBSET (1..Len(w)) : Cardinality(U) <= MaxUpper \/ U = 1..Len(w)}

Spellings(w) == {Spell(w, U) : U \in CasePatterns(w)}

Atlantis == <<"a","t","l","a","n","t","i","s">>
Lond == <<"l","o","n","d">>
NewYorkSpace == <<"N","e","w"," ","Y","o","r","k">>

AllPaths ==
    UNION {Spellings(w) : w \in DOMAIN WEATHER_DATA}
    \cup {Atlantis, Spell(Atlantis, {1}), Lond, NewYorkSpace}

CoarsePaths == {Spell(KeyNewYork, {1, 5}), Atlantis}

----------------------------------------------------------------------------
(* The generators of a city record, and round(x, 1) *)

\* random.uniform(lo, hi), in hundredths: both ends of the range and, for
\* n > 0, n points just inside each end (at 0.04, 0.09, ... from it)
Offsets(n) == {0} \cup {5 * k - 1 : k \in 1..n}

UniformDraws(lo, hi, n) ==
    IF n = 0 THEN {lo * 100}
    ELSE {lo * 100 + d : d \in Offsets(n)} \cup {hi * 100 - d : d \in Offsets(n)}

\* random.choice(seq)
ChoiceDraws(seq, n) ==
    IF n = 0 THEN {seq[1]} ELSE {seq[i] : i \in 1..Len(seq)}

\* round(x, 1): hundredths to tenths, ties to the even tenth
Round1(h) ==
    LET q == h \div 10
        r == h % 10
    IN  IF r < 5 THEN q
        ELSE IF r > 5 THEN q + 1
        ELSE IF q % 2 = 0 THEN q ELSE q + 1

----------------------------------------------------------------------------
(* Response bodies and the metrics operations *)

NoResponse == [status |-> 0, body |-> [none |-> TRUE]]

\* faulty variant: the message reports the normalised city
NotFoundBodyLower(c) == [error |-> <<"City", Lower(c), "not found">>]

NotFoundBody(c) == [error |-> <<"City", c, "not found">>]

WeatherBody(data, t, cond, h) ==
    [city        |-> data.city,
     temperature |-> Round1(t),
     conditions  |-> cond,
     humidity    |-> Round1(h)]

InternalErrorBody == [error |-> <<"Internal server error">>]

HealthBody == [status |-> "healthy"]

IndexBody ==
    [service   |-> "Weather Microservice",
     version   |-> "1.0.0",
     endpoints |-> <<[path |-> "/", method |-> "GET"],
                     [path |-> "/health", method |-> "GET"],
                     [path |-> "/metrics", method |-> "GET"],
                     [path |-> "/weather/<city>", method |-> "GET"]>>]

\* faulty variant: the exposition is rendered from an empty registry
MetricsBodyEmpty(rc, rl) ==
    [weather_request_count |-> [s \in Statuses |-> 0],
     weather_request_latency_seconds_count |-> 0]

\* generate_latest(REGISTRY): the sample values of both metrics
MetricsBody(rc, rl) ==
    [weather_request_count |-> rc, weather_request_latency_seconds_count |-> rl]

\* faulty variant: an unsynchronised read-modify-write that writes back a stale read
CounterIncLost(rc, s) == [rc EXCEPT ![s] = 1]

\* REQUEST_COUNT.labels(endpoint='/weather', status=s).inc()
CounterInc(rc, s) == [rc EXCEPT ![s] = @ + 1]

\* faulty variant: the histogram keeps a window of one observation and starts over
HistObserveWindow(rl) == (rl + 1) % 2

\* REQUEST_LATENCY.labels(endpoint='/weather').observe(...)
HistObserve(rl) == rl + 1

Known(c) == Lower(c) \in DOMAIN WEATHER_DATA

\* history bookkeeping: one more increment of label s by the current request
Tally(f, s) == [f EXCEPT ![s] = @ + 1]

NoIncs == [s \in Statuses |-> 0]

----------------------------------------------------------------------------
(* Initial states *)

InitCommon ==
    /\ REQUEST_COUNT = [s \in Statuses |-> 0]
    /\ REQUEST_LATENCY = 0
    /\ pc = [t \in Threads |-> "idle"]
    /\ endpoint = [t \in Threads |-> "none"]
    /\ city = [t \in Threads |-> <<>>]
    /\ response = [t \in Threads |-> NoResponse]
    /\ incs = [t \in Threads |-> NoIncs]
    /\ obs = [t \in Threads |-> 0]
    /\ failed = [t \in Threads |-> {}]
    /\ started = 0
    /\ served = 0
    /\ counted = [s \in Statuses |-> 0]
    /\ failures = FALSE

\* a threaded server, a few request paths, a coarse random source
Init ==
    /\ InitCommon
    /\ env = [pool |-> Threads, paths |-> CoarsePaths, res |-> 0, budget |-> MaxRequests]

\* one request at a time, every spelling, a finer random source
InitSeq ==
    /\ InitCommon
    /\ env = [pool |-> {1}, paths |-> AllPaths, res |-> Resolution, budget |-> MaxSeqRequests]

----------------------------------------------------------------------------
(* The handlers *)

Accept(t) ==
    /\ t \in env.pool
    /\ pc[t] = "idle"
    /\ started < env.budget
    /\ started' = started + 1

\* index(): GET /
Index(t) ==
    /\ Accept(t)
    /\ endpoint' = [endpoint EXCEPT ![t] = "/"]
    /\ response' = [response EXCEPT ![t] = [status |-> 200, body |-> IndexBody]]
    /\ pc' = [pc EXCEPT ![t] = "return"]
    /\ UNCHANGED <<REQUEST_COUNT, REQUEST_LATENCY, city, incs, obs, failed, served,
                   counted, failures, env>>

\* faulty variant: the probe reports the service degraded once a request has failed
HealthCheckDegraded(t) ==
    /\ Accept(t)
    /\ endpoint' = [endpoint EXCEPT ![t] = "/health"]
    /\ response' = [response EXCEPT ![t] =
                       IF REQUEST_COUNT["500"] > 0
                       THEN [status |-> 503, body |-> [status |-> "degraded"]]
                       ELSE [status |-> 200, body |-> HealthBody]]
    /\ pc' = [pc EXCEPT ![t] = "return"]
    /\ UNCHANGED <<REQUEST_COUNT, REQUEST_LATENCY, city, incs, obs, failed, served,
                   counted, failures, env>>

\* health_check(): GET /health
HealthCheck(t) ==
    /\ Accept(t)
    /\ endpoint' = [endpoint EXCEPT ![t] = "/health"]
    /\ response' = [response EXCEPT ![t] =
                       [status |-> 200, body |-> HealthBody]]
    /\ pc' = [pc EXCEPT ![t] = "return"]
    /\ UNCHANGED <<REQUEST_COUNT, REQUEST_LATENCY, city, incs, obs, failed, served,
                   counted, failures, env>>

\* metrics(): GET /metrics
Metrics(t) ==
    /\ Accept(t)
    /\ endpoint' = [endpoint EXCEPT ![t] = "/metrics"]
    /\ response' = [response EXCEPT ![t] =
                       [status |-> 200, body |-> MetricsBody(REQUEST_COUNT, REQUEST_LATENCY)]]
    /\ pc' = [pc EXCEPT ![t] = "return"]
    /\ UNCHANGED <<REQUEST_COUNT, REQUEST_LATENCY, city, incs, obs, failed, served,
                   counted, failures, env>>

\* get_weather(city), line 75: the request enters the handler
GetWeatherBegin(t) ==
    /\ Accept(t)
    /\ \E c \in env.paths : city' = [city EXCEPT ![t] = c]
    /\ endpoint' = [endpoint EXCEPT ![t] = "/weather"]
    /\ pc' = [pc EXCEPT ![t] = "try"]
    /\ UNCHANGED <<REQUEST_COUNT, REQUEST_LATENCY, response, incs, obs, failed, served,
                   counted, failures, env>>

\* the try block, unknown city (lines 79-82)
GetWeatherNotFound(t) ==
    /\ pc[t] = "try"
    /\ ~Known(city[t])
    /\ REQUEST_COUNT' = CounterInc(REQUEST_COUNT, "404")
    /\ incs' = [incs EXCEPT ![t] = Tally(@, "404")]
    /\ response' = [response EXCEPT ![t] =
                       [status |-> 404, body |-> NotFoundBody(city[t])]]
    /\ pc' = [pc EXCEPT ![t] = "observe"]
    /\ UNCHANGED <<REQUEST_LATENCY, endpoint, city, obs, failed, started, served,
                   counted, failures, env>>

\* the try block, known city (lines 79, 83-95)
GetWeatherFound(t) ==
    /\ pc[t] = "try"
    /\ Known(city[t])
    /\ LET city_data == WEATHER_DATA[Lower(city[t])]
       IN  \E temp \in UniformDraws(city_data.temperature.lo, city_data.temperature.hi, env.res),
              cond \in ChoiceDraws(city_data.conditions, env.res),
              hum \in UniformDraws(city_data.humidity.lo, city_data.humidity.hi, env.res) :
                response' = [response EXCEPT ![t] =
                    [status |-> 200, body |-> WeatherBody(city_data, temp, cond, hum)]]
    /\ REQUEST_COUNT' = CounterInc(REQUEST_COUNT, "200")
    /\ incs' = [incs EXCEPT ![t] = Tally(@, "200")]
    /\ pc' = [pc EXCEPT ![t] = "observe"]
    /\ UNCHANGED <<REQUEST_LATENCY, endpoint, city, obs, failed, started, served,
                   counted, failures, env>>

\* a call inside the try block raises: before the branch's counter increment
\* (lines 79-80, 85-93) or after it (jsonify, lines 82 and 95)
GetWeatherTryRaise(t) ==
    /\ pc[t] = "try"
    /\ LET branch == IF Known(city[t]) THEN "200" ELSE "404"
       IN  \/ /\ REQUEST_COUNT' = REQUEST_COUNT
              /\ incs' = incs
           \/ /\ REQUEST_COUNT' = CounterInc(REQUEST_COUNT, branch)
              /\ incs' = [incs EXCEPT ![t] = Tally(@, branch)]
    /\ failed' = [failed EXCEPT ![t] = @ \cup {"try"}]
    /\ failures' = TRUE
    /\ pc' = [pc EXCEPT ![t] = "except"]
    /\ UNCHANGED <<REQUEST_LATENCY, endpoint, city, response, obs, started, served,
                   counted, env>>

\* the except block (lines 96-100)
GetWeatherExcept(t) ==
    /\ pc[t] = "except"
    /\ REQUEST_COUNT' = CounterInc(REQUEST_COUNT, "500")
    /\ incs' = [incs EXCEPT ![t] = Tally(@, "500")]
    /\ response' = [response EXCEPT ![t] = [status |-> 500, body |-> InternalErrorBody]]
    /\ pc' = [pc EXCEPT ![t] = "observe"]
    /\ UNCHANGED <<REQUEST_LATENCY, endpoint, city, obs, failed, started, served,
                   counted, failures, env>>

\* a call inside the except block raises: before the 500 increment (line 98)
\* or after it (line 100); nothing encloses the block, the exception leaves
\* get_weather
GetWeatherExceptRaise(t) ==
    /\ pc[t] = "except"
    /\ \/ /\ REQUEST_COUNT' = REQUEST_COUNT
          /\ incs' = incs
       \/ /\ REQUEST_COUNT' = CounterInc(REQUEST_COUNT, "500")
          /\ incs' = [incs EXCEPT ![t] = Tally(@, "500")]
    /\ failed' = [failed EXCEPT ![t] = @ \cup {"except"}]
    /\ failures' = TRUE
    /\ pc' = [pc EXCEPT ![t] = "raised"]
    /\ UNCHANGED <<REQUEST_LATENCY, endpoint, city, response, obs, started,
                   served, counted, env>>

\* line 103: the latency observation, after the try statement
GetWeatherObserve(t) ==
    /\ pc[t] = "observe"
    /\ REQUEST_LATENCY' = HistObserve(REQUEST_LATENCY)
    /\ obs' = [obs EXCEPT ![t] = @ + 1]
    /\ pc' = [pc EXCEPT ![t] = "return"]
    /\ UNCHANGED <<REQUEST_COUNT, endpoint, city, response, incs, failed, started,
                   served, counted, failures, env>>

\* line 103 raises: it is outside the try statement, the exception leaves
\* get_weather and the local `response` is never returned
GetWeatherObserveRaise(t) ==
    /\ pc[t] = "observe"
    /\ failed' = [failed EXCEPT ![t] = @ \cup {"observe"}]
    /\ failures' = TRUE
    /\ response' = [response EXCEPT ![t] = NoResponse]
    /\ pc' = [pc EXCEPT ![t] = "raised"]
    /\ UNCHANGED <<REQUEST_COUNT, REQUEST_LATENCY, endpoint, city, incs, obs,
                   started, served, counted, env>>

\* the handler returns (line 104, lines 60, 68, 121) or its exception reaches
\* the server; the thread is free for the next request
Return(t) ==
    /\ pc[t] \in {"return", "raised"}
    /\ served' = IF endpoint[t] = "/weather" THEN served + 1 ELSE served
    /\ counted' = [s \in Statuses |-> IF incs[t][s] > 0 THEN counted[s] + 1 ELSE counted[s]]
    /\ pc' = [pc EXCEPT ![t] = "idle"]
    /\ endpoint' = [endpoint EXCEPT ![t] = "none"]
    /\ city' = [city EXCEPT ![t] = <<>>]
    /\ response' = [response EXCEPT ![t] = NoResponse]
    /\ incs' = [incs EXCEPT ![t] = NoIncs]
    /\ obs' = [obs EXCEPT ![t] = 0]
    /\ failed' = [failed EXCEPT ![t] = {}]
    /\ UNCHANGED <<REQUEST_COUNT, REQUEST_LATENCY, started, failures, env>>

Next ==
    \E t \in Threads :
        \/ Index(t)
        \/ HealthCheck(t)
        \/ Metrics(t)
        \/ GetWeatherBegin(t)
        \/ GetWeatherNotFound(t)
        \/ GetWeatherFound(t)
        \/ GetWeatherTryRaise(t)
        \/ GetWeatherExcept(t)
        \/ GetWeatherExceptRaise(t)
        \/ GetWeatherObserve(t)
        \/ GetWeatherObserveRaise(t)
        \/ Return(t)

Spec == Init /\ [][Next]_vars

SpecSeq == InitSeq /\ [][Next]_vars

----------------------------------------------------------------------------
(* Vocabulary of the properties *)

RECURSIVE SumOver(_, _)
SumOver(f, S) ==
    IF S = {} THEN 0
    ELSE LET x == CHOOSE y \in S : TRUE IN f[x] + SumOver(f, S \ {x})

Total(rc) == SumOver(rc, Statuses)

Quiescent == \A t \in Threads : pc[t] = "idle"

Alone(t) == \A u \in Threads \ {t} : pc[u] = "idle"

\* c spells key, each letter in either case
IsSpellingOf(c, key) ==
    /\ Len(c) = Len(key)
    /\ \A i \in 1..Len(key) : c[i] \in {key[i], UpperChar(key[i])}

StatusLabel(n) == IF n = 200 THEN "200" ELSE IF n = 404 THEN "404" ELSE "500"

Only(s) == [x \in Statuses |-> IF x = s THEN 1 ELSE 0]

Returned(t) == pc[t] = "return" /\ endpoint[t] = "/weather"

Completed(t) == pc[t] \in {"return", "raised"} /\ endpoint[t] = "/weather"

----------------------------------------------------------------------------
(* C1: for every key of the city table and every letter-case spelling of   *)
(* it, a /weather request that meets no internal failure returns 200 with  *)
(* the city's display name, a temperature and a humidity inside the city's *)
(* configured ranges (in tenths) and one of the city's conditions,         *)
(* whatever requests came before.                                          *)
C1_KnownCityInRange ==
    \A t \in Threads : \A key \in DOMAIN WEATHER_DATA :
        (Returned(t) /\ IsSpellingOf(city[t], key) /\ failed[t] = {}) =>
            LET d == WEATHER_DATA[key]
                b == response[t].body
            IN  /\ response[t].status = 200
                /\ b.city = d.city
                /\ d.temperature.lo * 10 <= b.temperature
                /\ b.temperature <= d.temperature.hi * 10
                /\ d.humidity.lo * 10 <= b.humidity
                /\ b.humidity <= d.humidity.hi * 10
                /\ \E i \in 1..Len(d.conditions) : b.conditions = d.conditions[i]

\* NEW_YORK in capitals, second request, a draw of 34.96 rounded up to the bound
C1_Witness ==
    \E t \in Threads :
        /\ Returned(t)
        /\ city[t] = <<"N","E","W","_","Y","O","R","K">>
        /\ started = 2
        /\ response[t].status = 200
        /\ response[t].body.temperature = 350
        /\ response[t].body.conditions = "Snowy"

(* C2: a /weather request whose lowercased segment is no key of the table  *)
(* and that meets no internal failure returns 404 with the message         *)
(* "City {city} not found" carrying the segment as received, increments    *)
(* the 404 counter by exactly 1 and leaves the 200 and 500 counters as     *)
(* they were (the counter values compared while no other request runs).    *)
C2_State ==
    \A t \in Threads :
        (Returned(t) /\ ~Known(city[t]) /\ failed[t] = {}) =>
            /\ response[t] = [status |-> 404,
                              body |-> [error |-> <<"City", city[t], "not found">>]]
            /\ incs[t] = Only("404")

C2_Step ==
    \A t \in Threads :
        (endpoint[t] = "/weather" /\ ~Known(city[t]) /\ failed'[t] = {} /\ Alone(t)
         /\ pc[t] # "idle") =>
            IF pc[t] = "try"
            THEN REQUEST_COUNT' = [REQUEST_COUNT EXCEPT !["404"] = @ + 1]
            ELSE REQUEST_COUNT' = REQUEST_COUNT

\* C2: the response and the request's own increments in every state, the
\* counter change at every step of the request
C2_UnknownCityNotFound == []C2_State /\ [][C2_Step]_vars

\* "Atlantis", capitalised, answered 404 after an earlier request was counted
C2_Witness ==
    \E t \in Threads :
        /\ Returned(t)
        /\ ~failures
        /\ city[t] = <<"A","t","l","a","n","t","i","s">>
        /\ response[t].status = 404
        /\ REQUEST_COUNT["404"] = 1
        /\ Total(REQUEST_COUNT) = 2

(* C3: every completed /weather request has recorded exactly one latency   *)
(* observation, whichever outcome it ends in and wherever an internal      *)
(* failure occurred while it was handled (a failure of the observation     *)
(* call itself set aside).                                                 *)
C3_OneObservationPerRequest ==
    \A t \in Threads :
        (Completed(t) /\ "observe" \notin failed[t]) => obs[t] = 1

(* C4: every /weather request that returns a response has incremented      *)
(* exactly one status counter, by exactly 1, and its label is the status   *)
(* of the response, also when a failure occurred inside the try block      *)
(* before or after the 200/404 increment.                                  *)
C4_OneCounterPerRequest ==
    \A t \in Threads :
        Returned(t) => incs[t] = Only(StatusLabel(response[t].status))

C6_FailureCaught ==
    \A t \in Threads :
        /\ pc[t] # "raised"
        /\ (Returned(t) /\ failed[t] # {}) =>
              /\ response[t] = [status |-> 500,
                                body |-> [error |-> <<"Internal server error">>]]
              /\ incs[t]["500"] = 1

(* C7: GET /health returns 200 with the body {"status": "healthy"} in      *)
(* every reachable state, whatever the metrics hold and whatever requests  *)
(* came before or run beside it.                                           *)
C7_HealthAlwaysHealthy ==
    \A t \in Threads :
        (pc[t] = "return" /\ endpoint[t] = "/health") =>
            response[t] = [status |-> 200, body |-> [status |-> "healthy"]]

\* a health probe answered after a /weather request ended in 500
C7_Witness ==
    \E t \in Threads :
        /\ pc[t] = "return"
        /\ endpoint[t] = "/health"
        /\ REQUEST_COUNT["500"] = 1
        /\ served = 1

(* C8: no counter value and no histogram observation count decreases from  *)
(* one state to the next.                                                  *)
C8_Step ==
    /\ \A s \in Statuses : REQUEST_COUNT'[s] >= REQUEST_COUNT[s]
    /\ REQUEST_LATENCY' >= REQUEST_LATENCY

\* C8: every step keeps or raises each counter and the histogram count
C8_MetricsMonotonic == [][C8_Step]_vars

\* every counter and the histogram have accumulated
C8_Witness ==
    /\ \A s \in Statuses : REQUEST_COUNT[s] >= 1
    /\ REQUEST_LATENCY >= 2

(* C9: a request to /, /health or /metrics returns 200 and leaves every    *)
(* counter and the histogram unchanged; /metrics reports the counter and   *)
(* histogram values current at the call, so that with no request in flight *)
(* and no internal failure so far the reported series account for exactly  *)
(* the /weather requests served.                                           *)
C9_Step ==
    \A t \in Threads :
        (pc[t] = "idle" /\ endpoint'[t] \in {"/", "/health", "/metrics"}) =>
            /\ REQUEST_COUNT' = REQUEST_COUNT
            /\ REQUEST_LATENCY' = REQUEST_LATENCY
            /\ pc'[t] = "return"
            /\ response'[t].status = 200
            /\ endpoint'[t] = "/metrics" =>
                  /\ response'[t].body =
                        [weather_request_count |-> REQUEST_COUNT,
                         weather_request_latency_seconds_count |-> REQUEST_LATENCY]
                  /\ (Alone(t) /\ ~failures) =>
                        /\ Total(response'[t].body.weather_request_count) = served
                        /\ response'[t].body.weather_request_latency_seconds_count = served

\* C9: every step that serves /, /health or /metrics is read-only and
\* answers 200, /metrics with the current values
C9_ReadOnlyRoutes == [][C9_Step]_vars

\* /metrics answered after two /weather requests, reporting both
C9_Witness ==
    \E t \in Threads :
        /\ pc[t] = "return"
        /\ endpoint[t] = "/metrics"
        /\ ~failures
        /\ served = 2
        /\ response[t].body.weather_request_latency_seconds_count = 2
        /\ Total(response[t].body.weather_request_count) = 2

(* C10: the histogram's observation count never exceeds the sum of the     *)
(* three status counters, and at rest the two are equal to each other and  *)
(* to the number of /weather requests served.                              *)
C10_LatencyMatchesCounters ==
    /\ REQUEST_LATENCY <= Total(REQUEST_COUNT)
    /\ Quiescent =>
          /\ REQUEST_LATENCY = Total(REQUEST_COUNT)
          /\ REQUEST_LATENCY = served

====
